---- MODULE Spec2Model ----
(***************************************************************************)
(* Model of tools/ply_chunker.py: PLYChunker.chunk_ply_file and the steps  *)
(* it runs (analyze_ply_file, read_vertices_from_ply,                      *)
(* calculate_bounding_box, scale normalisation, chunk_vertices_radial,     *)
(* write_ply_chunk, manifest).                                             *)
(*                                                                         *)
(* Numbers.  A Python float is modelled as an integer count of 1/Unit;     *)
(* every floating-point operation whose exact result need not be           *)
(* representable (division, multiplication, square root) rounds to the     *)
(* nearest count, as IEEE arithmetic rounds to the nearest double.  A      *)
(* 32-bit float (struct '<f') is a count that is a multiple of F32Step, a  *)
(* coarser grid inside the first.  Comparisons of probabilities against    *)
(* random draws are evaluated exactly, cross-multiplied.                   *)
(*                                                                         *)
(* Vertices are objects: a chunk holds references, modelled as the index   *)
(* of the vertex in the list `vertices`.                                   *)
(***************************************************************************)
EXTENDS Integers, Sequences, FiniteSets, TLC

\* ---------------------------------------------------------------- bounds
MaxVerts == 4          \* longest vertex list of an input file
DrawDen == 4           \* random.random() returns k/DrawDen, k in 0..DrawDen-1
MaxEofReads == 2       \* empty reads at end of file that are told apart
MaxRuns == 2           \* calls of chunk_ply_file for one output directory
MaxRerunVerts == 3     \* longest vertex list of a file that is chunked repeatedly
MaxBatch == 3          \* most .ply entries of the pointcloud directory
MaxListed == 2         \* longest `files` list of a stored gallery manifest
Unit == 64             \* resolution of the model of a Python float
F32Step == 4           \* resolution of a 32-bit float, in counts of 1/Unit

\* ------------------------------------------------------ program constants
bytes_per_vertex == 20
ScaleThreshold == 50
ScaleTarget == 20
BoostCap == 3          \* min(0.3, ...) in tenths
BoostStep == 1         \* (chunk_num - 1) * 0.1 in tenths
FarFactor == 8         \* distance / max_distance * 0.8 in tenths
CleanupNum == 3        \* vertices_per_chunk * 1.5, as CleanupNum / CleanupDen
CleanupDen == 2
RecordBytes == 15      \* struct '<fffBBB'
HeaderBytes == 174     \* the written header without the digits of the count
DefaultColor == 255
PosInf == 1000000      \* float('inf'): larger than every coordinate of the model

\* ------------------------------------------------------------ arithmetic
Abs(a) == IF a < 0 THEN -a ELSE a
Min2(a, b) == IF b < a THEN b ELSE a
Max2(a, b) == IF b > a THEN b ELSE a

\* nearest integer to n/d, d > 0 (halves up)
RoundDiv(n, d) == (2 * n + d) \div (2 * d)

\* a * b and a / b on floats
FMul(a, b) == RoundDiv(a * b, Unit)
FDiv(a, b) == RoundDiv(a * Unit, b)

RECURSIVE FloorSqrtIn(_, _, _)
FloorSqrtIn(n, lo, hi) ==
    IF lo >= hi THEN lo
    ELSE LET mid == (lo + hi + 1) \div 2
         IN  IF mid * mid <= n THEN FloorSqrtIn(n, mid, hi)
                               ELSE FloorSqrtIn(n, lo, mid - 1)

\* nearest integer to the square root of n
RoundSqrt(n) ==
    LET f == FloorSqrtIn(n, 0, 40000)
    IN  IF n - f * f > f THEN f + 1 ELSE f

\* math.sqrt on a float
FSqrt(v) == RoundSqrt(v * Unit)

\* struct.pack('<f', v) followed by the reader's unpack: nearest 32-bit float
PackF32(v) == F32Step * RoundDiv(v, F32Step)

RECURSIVE Digits(_)
Digits(n) == IF n < 10 THEN 1 ELSE 1 + Digits(n \div 10)

RECURSIVE SumSeq(_)
SumSeq(s) == IF s = <<>> THEN 0 ELSE Head(s) + SumSeq(Tail(s))

RECURSIVE SeqsUpTo(_, _)
SeqsUpTo(S, n) ==
    IF n = 0 THEN {<<>>}
    ELSE LET shorter == SeqsUpTo(S, n - 1)
         IN  shorter \cup {Append(s, e) : s \in {t \in shorter : Len(t) = n - 1}, e \in S}

\* ------------------------------------------------------------ data model
\* class Vertex
Vertex(x, y, z, r, g, b) == [x |-> x, y |-> y, z |-> z, r |-> r, g |-> g, b |-> b]

\* class PLYHeader
PLYHeader(format_type, vertex_count, header_size) ==
    [format_type |-> format_type, vertex_count |-> vertex_count,
     header_size |-> header_size]

\* class ChunkInfo
ChunkInfo(filename, vertex_count, bounding_box, priority, file_size) ==
    [filename |-> filename, vertex_count |-> vertex_count,
     bounding_box |-> bounding_box, priority |-> priority,
     file_size |-> file_size]

Point(x, y, z) == [x |-> x, y |-> y, z |-> z]
ZeroBox == [min |-> Point(0, 0, 0), max |-> Point(0, 0, 0)]

\* --------------------------------------------------------------- inputs
\* A header line: kind, the token after it, the number after it.
Line(kind, tok, num) == [kind |-> kind, tok |-> tok, num |-> num]

\* One vertex record of the data section: position and the colour fields
\* present (none or three).
Rec(x, y, z, c) == [x |-> x, y |-> y, z |-> z, c |-> c]

\* Records of a text file: 3.015625 is no 32-bit float of the model.
AsciiPool ==
    { Rec(0, 0, 0, <<255, 0, 0>>),
      Rec(3 * Unit + 1, 0, -2 * Unit, <<>>),
      Rec(ScaleThreshold * Unit, 0, 0, <<0, 255, 0>>),
      Rec(60 * Unit, Unit + 1, 0, <<0, 0, 255>>) }

\* Records of a binary file: every position is a 32-bit float, colour present.
BinaryPool ==
    { Rec(PackF32(r.x), PackF32(r.y), PackF32(r.z),
          IF r.c = <<>> THEN <<7, 8, 9>> ELSE r.c) : r \in AsciiPool }

HeaderOf(fmt, cnt_tok, cnt, has_end) ==
    <<Line("ply", "", 0)>>
    \o (IF fmt = "absent" THEN <<>> ELSE <<Line("format", fmt, 0)>>)
    \o (IF cnt_tok = "absent" THEN <<>> ELSE <<Line("element vertex", cnt_tok, cnt)>>)
    \o <<Line("property", "float x", 0)>>
    \o (IF has_end THEN <<Line("end_header", "", 0)>> ELSE <<>>)

PlyFile(fmt, cnt_tok, cnt, has_end, data) ==
    [header |-> HeaderOf(fmt, cnt_tok, cnt, has_end), data |-> data]

PoolOf(fmt) == IF fmt = "ascii" THEN AsciiPool ELSE BinaryPool

\* well-formed files of the two supported encodings
GoodFiles ==
    UNION { { PlyFile(fmt, "int", Len(d), TRUE, d) : d \in SeqsUpTo(PoolOf(fmt), MaxVerts) } :
            fmt \in {"ascii", "binary_little_endian"} }

\* the header declares one vertex more than the data section holds
TruncatedFiles ==
    UNION { { PlyFile(fmt, "int", Len(d) + 1, TRUE, d) : d \in SeqsUpTo(PoolOf(fmt), 1) } :
            fmt \in {"ascii", "binary_little_endian"} }

\* the format line names another encoding, or there is no format line
UnsupportedFiles ==
    { PlyFile(fmt, "int", Len(d), TRUE, d) :
        fmt \in {"binary_big_endian", "absent"}, d \in SeqsUpTo(BinaryPool, 2) }

\* no `element vertex` line, or one whose count is not a number
BadCountFiles ==
    { PlyFile("ascii", tok, 0, TRUE, d) :
        tok \in {"absent", "junk"}, d \in SeqsUpTo(AsciiPool, 1) }

\* the file ends inside the header
HeaderlessFiles ==
    { PlyFile(fmt, "int", n, FALSE, <<>>) :
        fmt \in {"ascii", "binary_little_endian", "binary_big_endian"}, n \in 0..2 }

InputFiles ==
    GoodFiles \cup TruncatedFiles \cup UnsupportedFiles \cup BadCountFiles
    \cup HeaderlessFiles

\* target_chunk_size_bytes of PLYChunker.__init__
Budgets == {0, 45}

\* --------------------------------------------------------------- state
VARIABLES
    file,                    \* the input file
    target_chunk_size_bytes, \* self.target_chunk_size_bytes
    pc,                      \* position of the run
    error,                   \* the exception that ended the run, "" if none
    dir_made,                \* model_output_dir exists
    header_lines,            \* analyze_ply_file: lines read so far
    header_size,             \* analyze_ply_file: count of lines consumed
    header,                  \* <<>> or <<the PLYHeader returned>>
    vertices,                \* the vertex objects, in input order
    decoded,                 \* the vertices as read_vertices_from_ply returned them
    original_bbox,
    scale_factor,            \* 0 while not computed; Unit is 1.0
    overall_bbox,
    max_distance,
    remaining_vertices,      \* list of <<distance, original_index>>
    chunk_num,
    current_chunk,           \* indices of the vertices selected in this pass
    vertices_to_remove,      \* positions in remaining_vertices selected in this pass
    scan_i,                  \* position of the for loop in remaining_vertices
    chunks,                  \* list of lists of vertex indices
    forced,                  \* the last chunk was appended by the safety check
    vertex_chunks,           \* <<>> or <<what chunk_vertices_radial returned>>
    chunk_infos,
    chunk_files,             \* model_output_dir: filename -> vertices stored
    manifest_file,           \* model_output_dir: <<>> or <<the manifest written>>
    manifest,                \* <<>> or <<the manifest returned>>
    runs,                    \* calls of chunk_ply_file made for this output directory
    mode,                    \* which entry point of the tools is running
    pointcloud_dir,          \* <<>> or <<the .ply entries of the pointcloud directory>>
    ply_files,               \* auto_chunk_pointcloud_models: the list it iterates
    file_i,                  \* position of its for loop in ply_files
    processed_count,
    outcomes,                \* what the loop did with each entry of ply_files
    auto_pc,                 \* position of auto_chunk_pointcloud_models
    public_exists,           \* update_gallery_manifest: '../public' exists
    gallery_dir,             \* <<>> or <<the names listed in the gallery directory>>
    gallery_manifest,        \* manifest.json of the gallery directory, as stored
    prior_candidates,        \* the randomCandidates stored when update_manifest began
    gpc                      \* position of update_manifest

scanVars == <<pointcloud_dir, ply_files, file_i, processed_count, outcomes, auto_pc>>
galleryVars == <<public_exists, gallery_dir, gallery_manifest, prior_candidates, gpc>>
callerVars == <<runs, mode, scanVars, galleryVars>>

vars == <<file, target_chunk_size_bytes, pc, error, dir_made, header_lines,
          header_size, header, vertices, decoded, original_bbox, scale_factor,
          overall_bbox, max_distance, remaining_vertices, chunk_num,
          current_chunk, vertices_to_remove, scan_i, chunks, forced,
          vertex_chunks, chunk_infos, chunk_files, manifest_file, manifest,
          callerVars>>

\* what no step of chunk_ply_file changes: its arguments and its caller
inputVars == <<file, target_chunk_size_bytes, callerVars>>
analyzeVars == <<header_lines, header_size, header>>
readVars == <<vertices, decoded>>
scaleVars == <<original_bbox, scale_factor, overall_bbox>>
radialVars == <<max_distance, remaining_vertices, chunk_num, current_chunk,
                vertices_to_remove, scan_i, chunks, forced, vertex_chunks>>
outVars == <<chunk_infos, chunk_files, manifest_file, manifest>>

\* the locals of chunk_ply_file and of the functions it calls, at its entry
FreshLocals ==
    /\ error = ""
    /\ header_lines = <<>>
    /\ header_size = 0
    /\ header = <<>>
    /\ vertices = <<>>
    /\ decoded = <<>>
    /\ original_bbox = ZeroBox
    /\ scale_factor = 0
    /\ overall_bbox = ZeroBox
    /\ max_distance = 0
    /\ remaining_vertices = <<>>
    /\ chunk_num = 0
    /\ current_chunk = <<>>
    /\ vertices_to_remove = <<>>
    /\ scan_i = 0
    /\ chunks = <<>>
    /\ forced = FALSE
    /\ vertex_chunks = <<>>
    /\ chunk_infos = <<>>
    /\ manifest = <<>>

\* chunk_ply_file has just been called
FreshRun ==
    /\ pc = "start"
    /\ FreshLocals

\* auto_chunk_pointcloud_models is not running
NoScan ==
    /\ pointcloud_dir = <<>>
    /\ ply_files = <<>>
    /\ file_i = 0
    /\ processed_count = 0
    /\ outcomes = <<>>
    /\ auto_pc = "none"

\* what update_gallery_manifest.py stores when there is no manifest.json
NoManifest == [state |-> "missing", files |-> <<>>, randomCandidates |-> <<>>, generated |-> ""]

\* update_gallery_manifest.py is not running
NoGallery ==
    /\ public_exists = FALSE
    /\ gallery_dir = <<>>
    /\ gallery_manifest = NoManifest
    /\ prior_candidates = {}
    /\ gpc = "none"

\* one call of chunk_ply_file (manual mode) for an output directory that does
\* not exist yet
Init ==
    /\ file \in InputFiles
    /\ target_chunk_size_bytes \in Budgets
    /\ FreshRun
    /\ dir_made = FALSE
    /\ chunk_files = <<>>
    /\ manifest_file = <<>>
    /\ runs = 1
    /\ mode = "manual"
    /\ NoScan
    /\ NoGallery

\* an exception leaves chunk_ply_file
Raise(exc) ==
    /\ pc' = "raised"
    /\ error' = exc

\* ------------------------------------------------------ chunk_ply_file
\* os.makedirs(model_output_dir, exist_ok=True)
Begin ==
    /\ pc = "start"
    /\ dir_made' = TRUE
    /\ pc' = "analyze"
    /\ UNCHANGED <<inputVars, error, analyzeVars, readVars, scaleVars, radialVars, outVars>>

\* ----------------------------------------------------- analyze_ply_file
EmptyLine == Line("", "", 0)

\* f.readline() at line position p: the empty string at end of file
ReadLine(p) == IF p < Len(file.header) THEN file.header[p + 1] ELSE EmptyLine

EofReads(ls) == Cardinality({i \in DOMAIN ls : ls[i] = EmptyLine})

\* one iteration of the `while True` loop that reads the header
AnalyzeReadLine ==
    /\ pc = "analyze"
    /\ LET line == ReadLine(header_size)
       IN  /\ header_size' = IF line = EmptyLine THEN header_size ELSE header_size + 1
           /\ header_lines' = IF line = EmptyLine /\ EofReads(header_lines) >= MaxEofReads
                                 THEN header_lines
                                 ELSE Append(header_lines, line)
           /\ pc' = IF line.kind = "end_header" THEN "parse" ELSE "analyze"
    /\ UNCHANGED <<inputVars, error, dir_made, header, readVars, scaleVars, radialVars, outVars>>

\* the last line of the given kind, <<>> if there is none
LastOf(ls, kind) ==
    LET at == {i \in DOMAIN ls : ls[i].kind = kind}
    IN  IF at = {} THEN <<>>
        ELSE <<ls[CHOOSE i \in at : \A j \in at : j <= i]>>

\* format_type after the parse loop: None without a format line
ParsedFormat(ls) ==
    IF LastOf(ls, "format") = <<>> THEN "None" ELSE LastOf(ls, "format")[1].tok

\* int(line.split()[2]) raises ValueError on a line that is no number
CountUnreadable(ls) == \E i \in DOMAIN ls : ls[i].kind = "element vertex" /\ ls[i].tok # "int"

ParsedCount(ls) ==
    IF LastOf(ls, "element vertex") = <<>> THEN 0 ELSE LastOf(ls, "element vertex")[1].num

\* the parse loop and the return of analyze_ply_file
AnalyzeParse ==
    /\ pc = "parse"
    /\ IF CountUnreadable(header_lines)
         THEN /\ Raise("ValueError")
              /\ UNCHANGED header
         ELSE /\ header' = <<PLYHeader(ParsedFormat(header_lines),
                                       ParsedCount(header_lines), header_size)>>
              /\ pc' = "read"
              /\ UNCHANGED error
    /\ UNCHANGED <<inputVars, dir_made, header_lines, header_size, readVars, scaleVars, radialVars, outVars>>

\* ----------------------------------------------- read_vertices_from_ply
\* Vertex(x=..., r=int(values[3]) if len(values) > 3 else 255, ...), and the
\* binary reader's default of white
DecodeRec(r) ==
    Vertex(r.x, r.y, r.z,
           IF Len(r.c) >= 1 THEN r.c[1] ELSE DefaultColor,
           IF Len(r.c) >= 2 THEN r.c[2] ELSE DefaultColor,
           IF Len(r.c) >= 3 THEN r.c[3] ELSE DefaultColor)

Supported(fmt) == fmt \in {"ascii", "binary_little_endian"}

ReadVertices ==
    /\ pc = "read"
    /\ LET h == header[1]
       IN  IF Supported(h.format_type) /\ h.vertex_count > Len(file.data)
             THEN /\ Raise(IF h.format_type = "ascii" THEN "IndexError" ELSE "struct.error")
                  /\ UNCHANGED readVars
             ELSE LET vs == IF Supported(h.format_type)
                              THEN [i \in 1..h.vertex_count |-> DecodeRec(file.data[i])]
                              ELSE <<>>
                  IN  /\ vertices' = vs
                      /\ decoded' = vs
                      /\ pc' = "scale"
                      /\ UNCHANGED error
    /\ UNCHANGED <<inputVars, dir_made, analyzeVars, scaleVars, radialVars, outVars>>

\* ------------------------------------------------ calculate_bounding_box
RECURSIVE MinOf(_, _)
MinOf(vals, acc) == IF vals = <<>> THEN acc ELSE MinOf(Tail(vals), Min2(acc, Head(vals)))

RECURSIVE MaxOf(_, _)
MaxOf(vals, acc) == IF vals = <<>> THEN acc ELSE MaxOf(Tail(vals), Max2(acc, Head(vals)))

Xs(vs) == [i \in DOMAIN vs |-> vs[i].x]
Ys(vs) == [i \in DOMAIN vs |-> vs[i].y]
Zs(vs) == [i \in DOMAIN vs |-> vs[i].z]

\* the loop over the vertices, started from inf and -inf
FoldedBox(vs) ==
    [min |-> Point(MinOf(Xs(vs), PosInf), MinOf(Ys(vs), PosInf), MinOf(Zs(vs), PosInf)),
     max |-> Point(MaxOf(Xs(vs), -PosInf), MaxOf(Ys(vs), -PosInf), MaxOf(Zs(vs), -PosInf))]

\* calculate_bounding_box without `if not vertices`
calculate_bounding_box_unguarded(vs) == FoldedBox(vs)

\* vs is a list of Vertex
calculate_bounding_box(vs) == IF vs = <<>> THEN ZeroBox ELSE FoldedBox(vs)

\* ------------------------------------------- chunk_ply_file: auto-scaling
\* max(size_x, size_y, size_z) of a box
MaxDimension(box) ==
    Max2(Max2(box.max.x - box.min.x, box.max.y - box.min.y), box.max.z - box.min.z)

NeedsScaling(box) == MaxDimension(box) > ScaleThreshold * Unit

\* scale_factor for a box: 1.0, or 20.0 / max_dimension
ScaleFactorOf(box) ==
    IF NeedsScaling(box) THEN FDiv(ScaleTarget * Unit, MaxDimension(box)) ELSE Unit

\* a scaling loop that forgets the z coordinate
ScaleVertex_xy(v, sf) == [v EXCEPT !.x = FMul(v.x, sf), !.y = FMul(v.y, sf)]

\* vertex.x *= scale_factor; vertex.y *= scale_factor; vertex.z *= scale_factor
ScaleVertex(v, sf) == [v EXCEPT !.x = FMul(v.x, sf), !.y = FMul(v.y, sf), !.z = FMul(v.z, sf)]

\* the vertex list after the scaling block
Scaled(vs, box) ==
    IF NeedsScaling(box)
      THEN [i \in DOMAIN vs |-> ScaleVertex(vs[i], ScaleFactorOf(box))]
      ELSE vs

\* original bounding box, scaling of every vertex in place, scaled bounding box
ScaleNormalize ==
    /\ pc = "scale"
    /\ original_bbox' = calculate_bounding_box(vertices)
    /\ scale_factor' = ScaleFactorOf(original_bbox')
    /\ vertices' = Scaled(vertices, original_bbox')
    /\ overall_bbox' = calculate_bounding_box(vertices')
    /\ pc' = "radial"
    /\ UNCHANGED <<inputVars, error, dir_made, analyzeVars, decoded, radialVars, outVars>>

\* ------------------------------------------------ chunk_vertices_radial
vertices_per_chunk == Max2(1, target_chunk_size_bytes \div bytes_per_vertex)

\* math.sqrt(vertex.x * vertex.x + vertex.y * vertex.y + vertex.z * vertex.z)
Distance(v) == FSqrt(FMul(v.x, v.x) + FMul(v.y, v.y) + FMul(v.z, v.z))

\* vertex_distances before the sort: <<distance, i>> for the vertex of index i
DistanceList(vs) == [i \in DOMAIN vs |-> <<Distance(vs[i]), i>>]

\* e placed behind every entry whose distance is not larger
InsertByDistance(sorted, e) ==
    LET before == {i \in DOMAIN sorted : sorted[i][1] <= e[1]}
        k == Cardinality(before)
    IN  SubSeq(sorted, 1, k) \o <<e>> \o SubSeq(sorted, k + 1, Len(sorted))

RECURSIVE SortFrom(_, _)
SortFrom(sorted, rest) ==
    IF rest = <<>> THEN sorted
    ELSE SortFrom(InsertByDistance(sorted, Head(rest)), Tail(rest))

\* vertex_distances.sort(key=lambda x: x[0]): ascending, stable
SortByDistance(ds) == SortFrom(<<>>, ds)

\* lines 172-196: distances, max_distance, the sort, the empty result
RadialInit ==
    /\ pc = "radial"
    /\ LET ds == DistanceList(vertices)
       IN  /\ max_distance' = MaxOf([i \in DOMAIN ds |-> ds[i][1]], 0)
           /\ remaining_vertices' = SortByDistance(ds)
    /\ chunks' = <<>>
    /\ chunk_num' = 0
    /\ pc' = "while"
    /\ UNCHANGED <<inputVars, error, dir_made, analyzeVars, readVars, scaleVars,
                   current_chunk, vertices_to_remove, scan_i, forced, vertex_chunks, outVars>>

\* `while remaining_vertices:` entered: a new pass
PassStart ==
    /\ pc = "while"
    /\ remaining_vertices # <<>>
    /\ chunk_num' = chunk_num + 1
    /\ current_chunk' = <<>>
    /\ vertices_to_remove' = <<>>
    /\ scan_i' = 1
    /\ pc' = "scan"
    /\ UNCHANGED <<inputVars, error, dir_made, analyzeVars, readVars, scaleVars,
                   max_distance, remaining_vertices, chunks, forced, vertex_chunks, outVars>>

\* `while remaining_vertices:` left because the list is empty
LoopExit ==
    /\ pc = "while"
    /\ remaining_vertices = <<>>
    /\ pc' = "return"
    /\ UNCHANGED <<inputVars, error, dir_made, analyzeVars, readVars, scaleVars, radialVars, outVars>>

\* chunk_boost in tenths
ChunkBoost(c) == Min2(BoostCap, (c - 1) * BoostStep)

\* the special handling applied only to a list that fits one chunk
IsCleanup_fits(n) == n <= vertices_per_chunk

\* len(remaining_vertices) <= vertices_per_chunk * 1.5
IsCleanup(n) == CleanupDen * n <= CleanupNum * vertices_per_chunk

\* final_probability as the fraction ProbNum / ProbDen, for max_distance > 0
ProbDen == 10 * max_distance

ProbNum(distance, c, n) ==
    IF IsCleanup(n) THEN ProbDen
    ELSE Min2(ProbDen, ProbDen - FarFactor * distance + ChunkBoost(c) * max_distance)

\* random.random() < final_probability, the draw being k / DrawDen
Selected(k, distance, c, n) == k * ProbDen < DrawDen * ProbNum(distance, c, n)

\* a chunk that is only full once it exceeds the target
ChunkFull_late(chunk) == Len(chunk) > vertices_per_chunk + 1

\* len(current_chunk) >= vertices_per_chunk
ChunkFull(chunk) == Len(chunk) >= vertices_per_chunk

\* one iteration of the for loop over remaining_vertices
ScanVertex ==
    /\ pc = "scan"
    /\ IF max_distance = 0
         THEN /\ Raise("ZeroDivisionError")
              /\ UNCHANGED <<current_chunk, vertices_to_remove, scan_i>>
         ELSE \E k \in 0..(DrawDen - 1) :
                LET entry == remaining_vertices[scan_i]
                    sel == Selected(k, entry[1], chunk_num, Len(remaining_vertices))
                    chunk1 == IF sel THEN Append(current_chunk, entry[2]) ELSE current_chunk
                    full == sel /\ ChunkFull(chunk1)
                    last == scan_i = Len(remaining_vertices)
                IN  /\ current_chunk' = chunk1
                    /\ vertices_to_remove' = IF sel THEN Append(vertices_to_remove, scan_i)
                                                   ELSE vertices_to_remove
                    /\ scan_i' = IF full \/ last THEN scan_i ELSE scan_i + 1
                    /\ pc' = IF full \/ last THEN "pass_end" ELSE "scan"
                    /\ UNCHANGED error
    /\ UNCHANGED <<inputVars, dir_made, analyzeVars, readVars, scaleVars, max_distance,
                   remaining_vertices, chunk_num, chunks, forced, vertex_chunks, outVars>>

\* the pops done in ascending order: every pop shifts the later positions
RECURSIVE PopAll_forward(_, _)
PopAll_forward(rem, positions) ==
    IF positions = <<>> THEN rem
    ELSE LET i == Head(positions)
         IN  PopAll_forward(IF i <= Len(rem)
                              THEN SubSeq(rem, 1, i - 1) \o SubSeq(rem, i + 1, Len(rem))
                              ELSE rem,
                            Tail(positions))

\* for i in reversed(vertices_to_remove): remaining_vertices.pop(i)
RECURSIVE PopAll(_, _)
PopAll(rem, positions) ==
    IF positions = <<>> THEN rem
    ELSE LET i == positions[Len(positions)]
         IN  PopAll(SubSeq(rem, 1, i - 1) \o SubSeq(rem, i + 1, Len(rem)),
                    SubSeq(positions, 1, Len(positions) - 1))

\* a forced chunk that takes the nearest remaining vertex only
VerticesOf_first(rem) == <<rem[1][2]>>

\* [vertex for _, _, vertex in remaining_vertices]
VerticesOf(rem) == [i \in DOMAIN rem |-> rem[i][2]]

\* chunks.append(current_chunk) without `if current_chunk:`
AppendChunk_always(cs, chunk) == Append(cs, chunk)

\* if current_chunk: chunks.append(current_chunk)
AppendChunk(cs, chunk) == IF chunk # <<>> THEN Append(cs, chunk) ELSE cs

\* the safety check fires: nothing was selected and vertices remain
Stalled(to_remove, rem) == Len(to_remove) = 0 /\ rem # <<>>

\* lines 226-251: removal, the chunk of the pass, the safety check
PassEnd ==
    /\ pc = "pass_end"
    /\ LET rem == PopAll(remaining_vertices, vertices_to_remove)
           chunks1 == AppendChunk(chunks, current_chunk)
       IN  /\ remaining_vertices' = rem
           /\ IF Stalled(vertices_to_remove, rem)
                THEN /\ chunks' = Append(chunks1, VerticesOf(rem))
                     /\ forced' = TRUE
                     /\ pc' = "return"
                ELSE /\ chunks' = chunks1
                     /\ forced' = forced
                     /\ pc' = "while"
    /\ UNCHANGED <<inputVars, error, dir_made, analyzeVars, readVars, scaleVars, max_distance,
                   chunk_num, current_chunk, vertices_to_remove, scan_i, vertex_chunks, outVars>>

\* return chunks
RadialReturn ==
    /\ pc = "return"
    /\ vertex_chunks' = <<chunks>>
    /\ pc' = "write"
    /\ UNCHANGED <<inputVars, error, dir_made, analyzeVars, readVars, scaleVars, max_distance,
                   remaining_vertices, chunk_num, current_chunk, vertices_to_remove,
                   scan_i, chunks, forced, outVars>>

\* ------------------------------------------------------ write_ply_chunk
\* anchors at the corners of the box before scaling
AnchorPoints_unscaled(box) ==
    << Vertex(original_bbox.min.x, original_bbox.min.y, original_bbox.min.z, 0, 0, 0),
       Vertex(original_bbox.max.x, original_bbox.min.y, original_bbox.min.z, 0, 0, 0),
       Vertex(original_bbox.min.x, original_bbox.max.y, original_bbox.min.z, 0, 0, 0),
       Vertex(original_bbox.min.x, original_bbox.min.y, original_bbox.max.z, 0, 0, 0),
       Vertex(original_bbox.max.x, original_bbox.max.y, original_bbox.min.z, 0, 0, 0),
       Vertex(original_bbox.max.x, original_bbox.min.y, original_bbox.max.z, 0, 0, 0),
       Vertex(original_bbox.min.x, original_bbox.max.y, original_bbox.max.z, 0, 0, 0),
       Vertex(original_bbox.max.x, original_bbox.max.y, original_bbox.max.z, 0, 0, 0) >>

\* the 8 anchor points, in the order of the source
AnchorPoints(box) ==
    << Vertex(box.min.x, box.min.y, box.min.z, 0, 0, 0),
       Vertex(box.max.x, box.min.y, box.min.z, 0, 0, 0),
       Vertex(box.min.x, box.max.y, box.min.z, 0, 0, 0),
       Vertex(box.min.x, box.min.y, box.max.z, 0, 0, 0),
       Vertex(box.max.x, box.max.y, box.min.z, 0, 0, 0),
       Vertex(box.max.x, box.min.y, box.max.z, 0, 0, 0),
       Vertex(box.min.x, box.max.y, box.max.z, 0, 0, 0),
       Vertex(box.max.x, box.max.y, box.max.z, 0, 0, 0) >>

\* struct.pack('<fffBBB', ...) of one vertex, as a reader of the file decodes it
PackVertex(v) == [v EXCEPT !.x = PackF32(v.x), !.y = PackF32(v.y), !.z = PackF32(v.z)]

\* the anchors appended to the argument itself, not to a copy of it
write_ply_chunk_nocopy(vs, box) ==
    LET chunk_vertices == vs \o AnchorPoints(box)
    IN  [arg |-> chunk_vertices,
         stored |-> [i \in DOMAIN chunk_vertices |-> PackVertex(chunk_vertices[i])],
         size |-> HeaderBytes + Digits(Len(chunk_vertices)) + RecordBytes * Len(chunk_vertices)]

\* what the call leaves behind: the argument list (`arg`), the vertices of
\* the file written (`stored`) and the size returned
write_ply_chunk(vs, box) ==
    LET chunk_vertices == vs \o AnchorPoints(box)
    IN  [arg |-> vs,
         stored |-> [i \in DOMAIN chunk_vertices |-> PackVertex(chunk_vertices[i])],
         size |-> HeaderBytes + Digits(Len(chunk_vertices)) + RecordBytes * Len(chunk_vertices)]

\* ---------------------------------------- chunk_ply_file: chunks, manifest
\* the digits of f"{i:03d}"
RECURSIVE DigitsOf(_)
DigitsOf(i) == IF i < 10 THEN <<i>> ELSE Append(DigitsOf(i \div 10), i % 10)

Pad3(ds) == [k \in 1..(3 - Len(ds)) |-> 0] \o ds
ChunkFilename(i) == <<"chunk">> \o Pad3(DigitsOf(i))

\* the Vertex objects a group refers to
Deref(group) == [k \in DOMAIN group |-> vertices[group[k]]]

\* one iteration of `for i, chunk_vertices in enumerate(vertex_chunks)`
WriteChunk ==
    /\ pc = "write"
    /\ Len(chunk_infos) < Len(vertex_chunks[1])
    /\ LET i == Len(chunk_infos)
           w == write_ply_chunk(Deref(vertex_chunks[1][i + 1]), overall_bbox)
       IN  /\ chunk_files' = (ChunkFilename(i) :> w.stored) @@ chunk_files
           /\ chunk_infos' = Append(chunk_infos,
                  ChunkInfo(ChunkFilename(i), Len(w.arg), calculate_bounding_box(w.arg),
                            i, w.size))
    /\ UNCHANGED <<inputVars, pc, error, dir_made, analyzeVars, readVars, scaleVars,
                   radialVars, manifest_file, manifest>>

\* the manifest dictionary
Manifest(infos) ==
    [total_vertices |-> Len(vertices),
     chunk_count |-> Len(infos),
     overall_bounding_box |-> overall_bbox,
     chunks |-> [k \in DOMAIN infos |->
                   [filename |-> infos[k].filename,
                    vertex_count |-> infos[k].vertex_count,
                    bounding_box |-> infos[k].bounding_box,
                    priority |-> infos[k].priority,
                    file_size_bytes |-> infos[k].file_size]]]

\* lines 410-438: the manifest is built, written and returned
WriteManifest ==
    /\ pc = "write"
    /\ Len(chunk_infos) = Len(vertex_chunks[1])
    /\ manifest_file' = <<Manifest(chunk_infos)>>
    /\ manifest' = <<Manifest(chunk_infos)>>
    /\ pc' = "done"
    /\ UNCHANGED <<inputVars, error, dir_made, analyzeVars, readVars, scaleVars,
                   radialVars, chunk_infos, chunk_files>>

Next ==
    \/ Begin
    \/ AnalyzeReadLine
    \/ AnalyzeParse
    \/ ReadVertices
    \/ ScaleNormalize
    \/ RadialInit
    \/ PassStart
    \/ LoopExit
    \/ ScanVertex
    \/ PassEnd
    \/ RadialReturn
    \/ WriteChunk
    \/ WriteManifest

Spec == Init /\ [][Next]_vars

\* ------------------------------------------- main: manual mode, repeated
\* text files that are chunked more than once
RerunFiles ==
    { PlyFile("ascii", "int", Len(d), TRUE, d) : d \in SeqsUpTo(AsciiPool, MaxRerunVerts) }

RerunInit ==
    /\ file \in RerunFiles
    /\ target_chunk_size_bytes = 0
    /\ FreshRun
    /\ dir_made = FALSE
    /\ chunk_files = <<>>
    /\ manifest_file = <<>>
    /\ runs = 1
    /\ mode = "manual"
    /\ NoScan
    /\ NoGallery

\* the tool is invoked again with the same input file and output directory,
\* after a call that returned or raised: the directory keeps what it holds
Rerun ==
    /\ mode = "manual"
    /\ pc \in {"done", "raised"}
    /\ runs < MaxRuns
    /\ runs' = runs + 1
    /\ pc' = "start"
    /\ error' = ""
    /\ header_lines' = <<>>
    /\ header_size' = 0
    /\ header' = <<>>
    /\ vertices' = <<>>
    /\ decoded' = <<>>
    /\ original_bbox' = ZeroBox
    /\ scale_factor' = 0
    /\ overall_bbox' = ZeroBox
    /\ max_distance' = 0
    /\ remaining_vertices' = <<>>
    /\ chunk_num' = 0
    /\ current_chunk' = <<>>
    /\ vertices_to_remove' = <<>>
    /\ scan_i' = 0
    /\ chunks' = <<>>
    /\ forced' = FALSE
    /\ vertex_chunks' = <<>>
    /\ chunk_infos' = <<>>
    /\ manifest' = <<>>
    /\ UNCHANGED <<file, target_chunk_size_bytes, mode, dir_made, chunk_files,
                   manifest_file, scanVars, galleryVars>>

RerunNext ==
    \/ Begin
    \/ AnalyzeReadLine
    \/ AnalyzeParse
    \/ ReadVertices
    \/ ScaleNormalize
    \/ RadialInit
    \/ PassStart
    \/ LoopExit
    \/ ScanVertex
    \/ PassEnd
    \/ RadialReturn
    \/ WriteChunk
    \/ WriteManifest
    \/ Rerun

RerunSpec == RerunInit /\ [][RerunNext]_vars

\* --------------------------------------------- auto_chunk_pointcloud_models
\* int(0.2 * 1024 * 1024), the target of the chunker the scan constructs
AutoChunkBytes == 209715

\* the .ply entries the scan meets: a file, and whether its manifest exists
ScanFiles ==
    { PlyFile("ascii", "int", 1, TRUE, <<Rec(0, 0, 0, <<255, 0, 0>>)>>),
      PlyFile("ascii", "int", 1, TRUE, <<Rec(60 * Unit, Unit + 1, 0, <<0, 0, 255>>)>>),
      PlyFile("ascii", "int", 2, TRUE, <<Rec(60 * Unit, Unit + 1, 0, <<0, 0, 255>>)>>),
      PlyFile("ascii", "int", 1, FALSE, <<>>) }

ScanEntry == [content : ScanFiles, manifest_exists : BOOLEAN]

\* the state of one call of chunk_ply_file and of its output directory
chunkerVars == <<file, target_chunk_size_bytes, pc, error, dir_made, analyzeVars,
                 readVars, scaleVars, radialVars, outVars>>

\* the scan starts; the pointcloud directory is missing or lists some entries
BatchInit ==
    /\ pointcloud_dir \in {<<>>} \cup { <<l>> : l \in SeqsUpTo(ScanEntry, MaxBatch) }
    /\ ply_files = <<>>
    /\ file_i = 0
    /\ processed_count = 0
    /\ outcomes = <<>>
    /\ auto_pc = "start"
    /\ mode = "auto"
    /\ runs = 0
    /\ file = <<>>
    /\ target_chunk_size_bytes = AutoChunkBytes
    /\ pc = "idle"
    /\ FreshLocals
    /\ NoGallery
    /\ dir_made = FALSE
    /\ chunk_files = <<>>
    /\ manifest_file = <<>>

\* lines 447-464: up to the loop
AutoStart ==
    /\ auto_pc = "start"
    /\ IF pointcloud_dir = <<>> \/ pointcloud_dir = << <<>> >>
         THEN /\ auto_pc' = "returned"
              /\ UNCHANGED <<ply_files, outcomes>>
         ELSE /\ ply_files' = pointcloud_dir[1]
              /\ outcomes' = [i \in DOMAIN pointcloud_dir[1] |-> "pending"]
              /\ auto_pc' = "for"
    /\ UNCHANGED <<chunkerVars, runs, mode, pointcloud_dir, file_i, processed_count,
                   galleryVars>>

\* lines 466-474: the next entry has its manifest already
AutoSkip ==
    /\ auto_pc = "for"
    /\ file_i < Len(ply_files)
    /\ ply_files[file_i + 1].manifest_exists
    /\ file_i' = file_i + 1
    /\ outcomes' = [outcomes EXCEPT ![file_i + 1] = "skipped"]
    /\ UNCHANGED <<chunkerVars, runs, mode, pointcloud_dir, ply_files,
                   processed_count, auto_pc, galleryVars>>

\* lines 466-481: the next entry has no manifest: chunk_ply_file is called
\* for it; its output directory is its own
AutoTry ==
    /\ auto_pc = "for"
    /\ file_i < Len(ply_files)
    /\ ~ply_files[file_i + 1].manifest_exists
    /\ file_i' = file_i + 1
    /\ file' = ply_files[file_i + 1].content
    /\ auto_pc' = "try"
    /\ runs' = 1
    /\ pc' = "start"
    /\ error' = ""
    /\ header_lines' = <<>>
    /\ header_size' = 0
    /\ header' = <<>>
    /\ vertices' = <<>>
    /\ decoded' = <<>>
    /\ original_bbox' = ZeroBox
    /\ scale_factor' = 0
    /\ overall_bbox' = ZeroBox
    /\ max_distance' = 0
    /\ remaining_vertices' = <<>>
    /\ chunk_num' = 0
    /\ current_chunk' = <<>>
    /\ vertices_to_remove' = <<>>
    /\ scan_i' = 0
    /\ chunks' = <<>>
    /\ forced' = FALSE
    /\ vertex_chunks' = <<>>
    /\ chunk_infos' = <<>>
    /\ manifest' = <<>>
    /\ dir_made' = FALSE
    /\ chunk_files' = <<>>
    /\ manifest_file' = <<>>
    /\ UNCHANGED <<target_chunk_size_bytes, mode, pointcloud_dir, ply_files,
                   processed_count, outcomes, galleryVars>>

\* lines 481-482: the call returned its manifest
AutoChunked ==
    /\ auto_pc = "try"
    /\ pc = "done"
    /\ processed_count' = processed_count + 1
    /\ outcomes' = [outcomes EXCEPT ![file_i] = "chunked"]
    /\ auto_pc' = "for"
    /\ pc' = "idle"
    /\ UNCHANGED <<file, target_chunk_size_bytes, error, dir_made, analyzeVars,
                   readVars, scaleVars, radialVars, outVars, runs, mode,
                   pointcloud_dir, ply_files, file_i, galleryVars>>

\* lines 483-484: except Exception
AutoFailed ==
    /\ auto_pc = "try"
    /\ pc = "raised"
    /\ outcomes' = [outcomes EXCEPT ![file_i] = "failed"]
    /\ auto_pc' = "for"
    /\ pc' = "idle"
    /\ UNCHANGED <<file, target_chunk_size_bytes, error, dir_made, analyzeVars,
                   readVars, scaleVars, radialVars, outVars, runs, mode,
                   pointcloud_dir, ply_files, file_i, processed_count, galleryVars>>

\* lines 486-488: the loop is over
AutoEnd ==
    /\ auto_pc = "for"
    /\ file_i = Len(ply_files)
    /\ auto_pc' = "returned"
    /\ UNCHANGED <<chunkerVars, runs, mode, pointcloud_dir, ply_files, file_i,
                   processed_count, outcomes, galleryVars>>

BatchNext ==
    \/ AutoStart
    \/ AutoSkip
    \/ AutoTry
    \/ AutoChunked
    \/ AutoFailed
    \/ AutoEnd
    \/ Begin
    \/ AnalyzeReadLine
    \/ AnalyzeParse
    \/ ReadVertices
    \/ ScaleNormalize
    \/ RadialInit
    \/ PassStart
    \/ LoopExit
    \/ ScanVertex
    \/ PassEnd
    \/ RadialReturn
    \/ WriteChunk
    \/ WriteManifest

BatchSpec == BatchInit /\ [][BatchNext]_vars

\* the interpreter keeps executing the scan while it has a step to take
BatchFairSpec == BatchSpec /\ WF_vars(BatchNext)

\* ------------------------------------------------ update_gallery_manifest.py
\* File names are sequences of code points.
\* "a.png", "B.PNG", "c.txt"
NameA == <<97, 46, 112, 110, 103>>
NameB == <<66, 46, 80, 78, 71>>
NameC == <<99, 46, 116, 120, 116>>
GalleryNames == {NameA, NameB, NameC}
\* ".png"
DotPng == <<46, 112, 110, 103>>

\* str.lower() on ASCII
Lower(str) == [i \in DOMAIN str |-> IF str[i] >= 65 /\ str[i] <= 90 THEN str[i] + 32 ELSE str[i]]

\* str.endswith(suffix)
EndsWith(str, suffix) ==
    /\ Len(str) >= Len(suffix)
    /\ SubSeq(str, Len(str) - Len(suffix) + 1, Len(str)) = suffix

\* str < str: by code point, a proper prefix first
StrLess(a, b) ==
    \E k \in 0..Min2(Len(a), Len(b)) :
        /\ SubSeq(a, 1, k) = SubSeq(b, 1, k)
        /\ k < Len(b)
        /\ (k = Len(a) \/ a[k + 1] < b[k + 1])

\* sorted() of a set of names
RECURSIVE sorted(_)
sorted(names) ==
    IF names = {} THEN <<>>
    ELSE LET first == CHOOSE n \in names : \A o \in names \ {n} : StrLess(n, o)
         IN  <<first>> \o sorted(names \ {first})

\* set() of a list
SetOf(list) == {list[i] : i \in DOMAIN list}

IsPng(filename) == EndsWith(Lower(filename), DotPng)

get_png_files_in_gallery ==
    IF gallery_dir = <<>> THEN <<>>
    ELSE sorted({filename \in gallery_dir[1] : IsPng(filename)})

\* load_manifest: <<>> is None
load_manifest ==
    IF gallery_manifest.state = "ok" THEN <<gallery_manifest>> ELSE <<>>

\* the manifest update_manifest works on (lines 94-103)
LoadedManifest ==
    IF load_manifest = <<>>
        THEN [state |-> "ok", files |-> <<>>, randomCandidates |-> <<>>, generated |-> ""]
        ELSE load_manifest[1]

current_files == SetOf(LoadedManifest.files)
current_random_candidates == SetOf(LoadedManifest.randomCandidates)
actual_files == SetOf(get_png_files_in_gallery)
files_to_add == actual_files \ current_files
files_to_remove == current_files \ actual_files
random_candidates_to_remove == current_random_candidates \ actual_files
changes_made ==
    files_to_add # {} \/ files_to_remove # {} \/ random_candidates_to_remove # {}

\* the manifest at line 150
UpdatedManifest ==
    [state |-> "ok",
     files |-> IF files_to_add # {} \/ files_to_remove # {}
                   THEN sorted(actual_files) ELSE LoadedManifest.files,
     randomCandidates |-> IF random_candidates_to_remove # {}
                              THEN sorted(current_random_candidates \cap actual_files)
                              ELSE sorted(current_random_candidates),
     generated |-> "now"]

\* manifests a gallery directory may hold when the script starts
StoredManifests ==
    { NoManifest, [NoManifest EXCEPT !.state = "corrupt"] }
    \cup { [state |-> "ok", files |-> f, randomCandidates |-> c, generated |-> "earlier"] :
             f \in SeqsUpTo({NameA, NameB}, MaxListed), c \in SeqsUpTo({NameA, NameB}, 1) }

\* the script is started in some directory
GalleryInit ==
    /\ public_exists \in BOOLEAN
    /\ gallery_dir \in {<<>>} \cup { <<names>> : names \in SUBSET GalleryNames }
    /\ gallery_manifest \in StoredManifests
    /\ gallery_dir # <<>> => public_exists
    /\ gallery_manifest # NoManifest => gallery_dir # <<>>
    /\ prior_candidates = {}
    /\ gpc = "idle"
    /\ mode = "gallery"
    /\ runs = 0
    /\ NoScan
    /\ file = <<>>
    /\ target_chunk_size_bytes = 0
    /\ pc = "idle"
    /\ FreshLocals
    /\ dir_made = FALSE
    /\ chunk_files = <<>>
    /\ manifest_file = <<>>

\* lines 75-78: not started from tools/
UpdateWrongDirectory ==
    /\ gpc = "idle"
    /\ ~public_exists
    /\ gpc' = "exit1"
    /\ prior_candidates' = SetOf(gallery_manifest.randomCandidates)
    /\ UNCHANGED <<chunkerVars, runs, mode, scanVars, public_exists, gallery_dir,
                   gallery_manifest>>

\* lines 80-86: no PNG file is listed
UpdateNoPngFiles ==
    /\ gpc = "idle"
    /\ public_exists
    /\ get_png_files_in_gallery = <<>>
    /\ gpc' = "returned"
    /\ prior_candidates' = SetOf(gallery_manifest.randomCandidates)
    /\ UNCHANGED <<chunkerVars, runs, mode, scanVars, public_exists, gallery_dir,
                   gallery_manifest>>

\* lines 88-157: nothing to add, to remove or to clean
UpdateNoChanges ==
    /\ gpc = "idle"
    /\ public_exists
    /\ get_png_files_in_gallery # <<>>
    /\ ~changes_made
    /\ gpc' = "returned"
    /\ prior_candidates' = SetOf(gallery_manifest.randomCandidates)
    /\ UNCHANGED <<chunkerVars, runs, mode, scanVars, public_exists, gallery_dir,
                   gallery_manifest>>

\* lines 88-165: the updated manifest is saved
UpdateSaved ==
    /\ gpc = "idle"
    /\ public_exists
    /\ get_png_files_in_gallery # <<>>
    /\ changes_made
    /\ gallery_manifest' = UpdatedManifest
    /\ gpc' = "returned"
    /\ prior_candidates' = SetOf(gallery_manifest.randomCandidates)
    /\ UNCHANGED <<chunkerVars, runs, mode, scanVars, public_exists, gallery_dir>>

\* lines 88-168: manifest.json cannot be opened for writing
UpdateSaveFailed ==
    /\ gpc = "idle"
    /\ public_exists
    /\ get_png_files_in_gallery # <<>>
    /\ changes_made
    /\ gpc' = "exit1"
    /\ prior_candidates' = SetOf(gallery_manifest.randomCandidates)
    /\ UNCHANGED <<chunkerVars, runs, mode, scanVars, public_exists, gallery_dir,
                   gallery_manifest>>

\* the stored timestamp is no longer the current time
Aged(m) == IF m.generated = "now" THEN [m EXCEPT !.generated = "earlier"] ELSE m

\* between two starts of the script a file is put into the gallery directory
GalleryAdd ==
    /\ gpc \in {"returned", "exit1"}
    /\ gallery_dir # <<>>
    /\ \E filename \in GalleryNames \ gallery_dir[1] :
           gallery_dir' = <<gallery_dir[1] \cup {filename}>>
    /\ gallery_manifest' = Aged(gallery_manifest)
    /\ gpc' = "idle"
    /\ UNCHANGED <<chunkerVars, runs, mode, scanVars, public_exists, prior_candidates>>

\* between two starts of the script a file is deleted from the gallery directory
GalleryDelete ==
    /\ gpc \in {"returned", "exit1"}
    /\ gallery_dir # <<>>
    /\ \E filename \in gallery_dir[1] :
           gallery_dir' = <<gallery_dir[1] \ {filename}>>
    /\ gallery_manifest' = Aged(gallery_manifest)
    /\ gpc' = "idle"
    /\ UNCHANGED <<chunkerVars, runs, mode, scanVars, public_exists, prior_candidates>>

GalleryNext ==
    \/ UpdateWrongDirectory
    \/ UpdateNoPngFiles
    \/ UpdateNoChanges
    \/ UpdateSaved
    \/ UpdateSaveFailed
    \/ GalleryAdd
    \/ GalleryDelete

GallerySpec == GalleryInit /\ [][GalleryNext]_vars

\* =============================================================== claims
Returned == vertex_chunks # <<>>
Groups == vertex_chunks[1]

\* the places of the returned groups that hold the vertex of index i
Places(i) == {<<g, k>> \in (DOMAIN Groups) \X (1..Len(vertices)) :
                k \in DOMAIN Groups[g] /\ Groups[g][k] = i}

\* C1: when chunk_vertices_radial has returned for a non-empty vertex list,
\* every input vertex (by index) sits in exactly one place of exactly one
\* group, and every member of a group is an input vertex.
C1_Partition ==
    (Returned /\ vertices # <<>>) =>
        /\ \A i \in DOMAIN vertices : Cardinality(Places(i)) = 1
        /\ \A g \in DOMAIN Groups : \A k \in DOMAIN Groups[g] : Groups[g][k] \in DOMAIN vertices

\* C1 witness: several groups returned for a list in which two distinct
\* vertices share their coordinates and colour
C1_Witness ==
    /\ Returned
    /\ Len(Groups) >= 2
    /\ \E i, j \in DOMAIN vertices : i # j /\ vertices[i] = vertices[j]

\* C2: chunk_vertices_radial ends by returning its groups: a run that has
\* started a pass of the partitioner never ends in an exception.
C2_ReturnsGroups == ~(pc = "raised" /\ chunk_num > 0)

\* C3: every group of the output list holds at least one vertex, at every
\* moment of the run.
C3_NonEmptyGroups == \A g \in DOMAIN chunks : chunks[g] # <<>>

\* C3 witness: a pass selected nothing (the safety check fired) and the
\* partitioner returned
C3_Witness == Returned /\ forced /\ Len(Groups) >= 2

\* C4 as stated: no emitted group, the forced one included, has more than
\* 1.5 x vertices_per_chunk vertices.
C4_AllGroupsBounded ==
    \A g \in DOMAIN chunks : CleanupDen * Len(chunks[g]) <= CleanupNum * vertices_per_chunk

IsForcedGroup(g) == forced /\ g = Len(chunks)

\* C4 amended: every group appended by a scan pass (normal or cleanup) has at
\* most vertices_per_chunk vertices; the group forced by the safety check is
\* the last one and has more than 1.5 x vertices_per_chunk vertices.
C4_ScanGroupsBounded ==
    \A g \in DOMAIN chunks :
        IF IsForcedGroup(g)
          THEN CleanupDen * Len(chunks[g]) > CleanupNum * vertices_per_chunk
          ELSE Len(chunks[g]) <= vertices_per_chunk

\* C4 witness: after a first group of vertices_per_chunk vertices, a pass
\* stalled and the safety check appended the forced group
C4_Witness ==
    /\ pc = "return"
    /\ forced
    /\ Len(chunks) >= 2
    /\ Len(chunks[1]) = vertices_per_chunk

\* C5: when the header reader meets the end of the file before any
\* end_header line, the run is aborted with an error and no manifest exists.
C5_HeaderlessAborts ==
    [][(pc = "analyze" /\ ReadLine(header_size) = EmptyLine)
          => (pc' = "raised" /\ manifest_file' = <<>>)]_vars

\* C6: with an unsupported (or absent) encoding token and a positive declared
\* vertex count, the run does not complete and writes no manifest.
C6_UnsupportedAborts ==
    (header # <<>> /\ ~Supported(header[1].format_type) /\ header[1].vertex_count > 0)
        => (pc # "done" /\ manifest_file = <<>>)

\* read_vertices_from_ply has returned
ReadDone ==
    \/ pc \in {"scale", "radial", "while", "scan", "pass_end", "return", "write", "done"}
    \/ (pc = "raised" /\ error = "ZeroDivisionError")

\* the scaling block and the second bounding box are done
ScaleDone == ReadDone /\ pc # "scale"

\* C7: an input that decodes to zero vertices never starts a pass and never
\* faults, writes no chunk file, and ends with all-zero bounding boxes, zero
\* groups and a manifest with total_vertices = 0 and chunk_count = 0.
C7_EmptyInput ==
    (ReadDone /\ decoded = <<>>) =>
        /\ pc \notin {"scan", "pass_end", "raised"}
        /\ DOMAIN chunk_files = {}
        /\ ScaleDone => (original_bbox = ZeroBox /\ overall_bbox = ZeroBox)
        /\ Returned => Groups = <<>>
        /\ pc = "done" =>
             /\ manifest_file # <<>>
             /\ manifest_file[1].total_vertices = 0
             /\ manifest_file[1].chunk_count = 0
             /\ manifest_file[1].overall_bounding_box = ZeroBox
             /\ manifest = manifest_file

\* C7 witness: a supported file that declares zero vertices was processed to
\* the end
C7_Witness ==
    /\ pc = "done"
    /\ decoded = <<>>
    /\ Supported(header[1].format_type)

\* C8: in the manifest returned, total_vertices is the sum of the
\* descriptors' vertex_count and the number of vertices decoded, and
\* chunk_count is the number of descriptors.
C8_ManifestTotals ==
    manifest # <<>> =>
        LET m == manifest[1]
        IN  /\ m.total_vertices = SumSeq([k \in DOMAIN m.chunks |-> m.chunks[k].vertex_count])
            /\ m.total_vertices = Len(decoded)
            /\ m.chunk_count = Len(m.chunks)
            /\ m.chunk_count = Len(Groups)

\* C8 witness: a manifest with several descriptors, the last one for a forced
\* group
C8_Witness ==
    /\ manifest # <<>>
    /\ manifest[1].chunk_count >= 2
    /\ forced

\* the box with every coordinate rounded to a 32-bit float
PackBox(box) ==
    [min |-> Point(PackF32(box.min.x), PackF32(box.min.y), PackF32(box.min.z)),
     max |-> Point(PackF32(box.max.x), PackF32(box.max.y), PackF32(box.max.z))]

Corners(box) ==
    {Point(x, y, z) : x \in {box.min.x, box.max.x}, y \in {box.min.y, box.max.y},
                      z \in {box.min.z, box.max.z}}

\* the descriptor of chunk k is computed from the real vertices of group k only
DescriptorOfReal(k) ==
    /\ chunk_infos[k].vertex_count = Len(Groups[k])
    /\ chunk_infos[k].bounding_box = calculate_bounding_box(Deref(Groups[k]))
    /\ chunk_infos[k].priority = k - 1

\* the file of chunk k holds the real vertices of group k followed by 8 black
\* vertices
StoredShape(k) ==
    LET stored == chunk_files[chunk_infos[k].filename]
        n == Len(Groups[k])
    IN  /\ Len(stored) = n + 8
        /\ \A j \in 1..n : stored[j] = PackVertex(vertices[Groups[k][j]])
        /\ \A j \in (n + 1)..(n + 8) : stored[j].r = 0 /\ stored[j].g = 0 /\ stored[j].b = 0

AnchorsOfFile(k) ==
    LET stored == chunk_files[chunk_infos[k].filename]
    IN  {Point(stored[j].x, stored[j].y, stored[j].z) :
            j \in (Len(Groups[k]) + 1)..Len(stored)}

\* C9 as stated: the bounding box of the vertices stored in every chunk file
\* equals the overall post-scaling bounding box, its anchors are the 8
\* corners of that box, and the descriptor is that of the real vertices.
C9_FileBoxIsOverallBox ==
    \A k \in DOMAIN chunk_infos :
        /\ StoredShape(k)
        /\ AnchorsOfFile(k) = Corners(overall_bbox)
        /\ calculate_bounding_box(chunk_files[chunk_infos[k].filename]) = overall_bbox
        /\ DescriptorOfReal(k)

\* C9 amended: the bounding box of the vertices stored in every chunk file
\* equals the overall post-scaling bounding box rounded to 32-bit floats (the
\* same box in every chunk of the run), its anchors are the 8 corners of that
\* rounded box, and the descriptor is that of the real vertices.
C9_FileBoxIsPackedOverallBox ==
    \A k \in DOMAIN chunk_infos :
        /\ StoredShape(k)
        /\ AnchorsOfFile(k) = Corners(PackBox(overall_bbox))
        /\ calculate_bounding_box(chunk_files[chunk_infos[k].filename]) = PackBox(overall_bbox)
        /\ DescriptorOfReal(k)

\* C9 witness: all chunks of a scaled model are written, one of them with
\* real vertices that do not span the overall box
C9_Witness ==
    /\ pc = "done"
    /\ NeedsScaling(original_bbox)
    /\ \E k \in DOMAIN chunk_infos : chunk_infos[k].bounding_box # overall_bbox

\* every position is the decoded position times the scale factor, once
ScaledOnce ==
    /\ Len(vertices) = Len(decoded)
    /\ LET factor == FDiv(ScaleTarget * Unit, MaxDimension(original_bbox))
       IN  \A i \in DOMAIN vertices :
              /\ vertices[i].x = FMul(decoded[i].x, factor)
              /\ vertices[i].y = FMul(decoded[i].y, factor)
              /\ vertices[i].z = FMul(decoded[i].z, factor)
              /\ vertices[i].r = decoded[i].r
              /\ vertices[i].g = decoded[i].g
              /\ vertices[i].b = decoded[i].b

\* C10 as stated: extent <= 50 leaves every vertex unchanged; extent > 50
\* multiplies every position once by 20/extent and the largest extent of the
\* post-scaling box equals 20; the overall box is computed after the scaling.
C10_ExtentIsTarget ==
    ScaleDone =>
        /\ original_bbox = calculate_bounding_box(decoded)
        /\ overall_bbox = calculate_bounding_box(vertices)
        /\ IF MaxDimension(original_bbox) <= ScaleThreshold * Unit
             THEN vertices = decoded
             ELSE ScaledOnce /\ MaxDimension(overall_bbox) = ScaleTarget * Unit

\* the rounding of the factor (half a count, times the extent) and of the two
\* products (half a count each)
WithinRounding(extent_after, extent_before) ==
    2 * Unit * Abs(extent_after - ScaleTarget * Unit) <= extent_before + 2 * Unit

\* C10 amended: as stated, except that the largest extent of the post-scaling
\* box equals 20 only up to the rounding of the factor 20/extent and of the
\* products.
C10_ExtentNearTarget ==
    ScaleDone =>
        /\ original_bbox = calculate_bounding_box(decoded)
        /\ overall_bbox = calculate_bounding_box(vertices)
        /\ IF MaxDimension(original_bbox) <= ScaleThreshold * Unit
             THEN vertices = decoded
             ELSE ScaledOnce /\ WithinRounding(MaxDimension(overall_bbox), MaxDimension(original_bbox))

\* C10 witness: a model wider than 50 was scaled, a vertex off the x axis
\* included
C10_Witness ==
    /\ ScaleDone
    /\ MaxDimension(original_bbox) > ScaleThreshold * Unit
    /\ \E i \in DOMAIN vertices : decoded[i].z # 0 /\ vertices[i].z # decoded[i].z

\* a pass is at its end and had started with at most 1.5 x vertices_per_chunk
\* remaining vertices
CleanupPassEnds ==
    /\ pc = "pass_end"
    /\ CleanupDen * Len(remaining_vertices) <= CleanupNum * vertices_per_chunk

\* the vertex indices of the first n entries of a remaining list
FirstOf(rem, n) == [i \in 1..n |-> rem[i][2]]

\* C14 as stated: a pass that started with at most 1.5 x vertices_per_chunk
\* remaining vertices puts all of them into its group, leaves the remaining
\* list empty and its group is the last one.
C14_CleanupTakesAll ==
    [][CleanupPassEnds =>
          /\ chunks' = Append(chunks, FirstOf(remaining_vertices, Len(remaining_vertices)))
          /\ remaining_vertices' = <<>>]_vars

\* C14 amended: in such a pass no scanned vertex is skipped, but the scan
\* still stops at vertices_per_chunk: the group of the pass is the first
\* min(n, vertices_per_chunk) of the n remaining vertices, in ascending
\* distance, and the other n - vertices_per_chunk vertices (none when
\* n <= vertices_per_chunk) stay in the remaining list for a further pass.
C14_CleanupTakesFirst ==
    [][CleanupPassEnds =>
          LET n == Len(remaining_vertices)
              m == Min2(n, vertices_per_chunk)
          IN  /\ current_chunk = FirstOf(remaining_vertices, m)
              /\ chunks' = Append(chunks, FirstOf(remaining_vertices, m))
              /\ remaining_vertices' = SubSeq(remaining_vertices, m + 1, n)
              /\ forced' = FALSE
              /\ pc' = "while"]_vars

\* C14 witness: a pass that started with more than vertices_per_chunk and at
\* most 1.5 x vertices_per_chunk vertices has ended and vertices remain
C14_Witness ==
    /\ pc = "while"
    /\ chunk_num >= 1
    /\ remaining_vertices # <<>>
    /\ Len(current_chunk) = vertices_per_chunk
    /\ CleanupDen * (Len(remaining_vertices) + Len(current_chunk))
          <= CleanupNum * vertices_per_chunk

\* a pass is at its end and has selected nothing
PassSelectedNothing == pc = "pass_end" /\ vertices_to_remove = <<>>

\* C15: a pass that selected nothing started with more than
\* 1.5 x vertices_per_chunk remaining vertices; its end appends all remaining
\* vertices as one group, leaves the loop for the return and raises no error;
\* once a group was forced no pass runs and no error is raised.
C15_StallForcesFinalGroup ==
    [][/\ PassSelectedNothing =>
            /\ remaining_vertices # <<>>
            /\ CleanupDen * Len(remaining_vertices) > CleanupNum * vertices_per_chunk
            /\ chunks' = Append(chunks, FirstOf(remaining_vertices, Len(remaining_vertices)))
            /\ forced'
            /\ pc' = "return"
            /\ error' = ""
       /\ forced => (pc' \in {"write", "done"} /\ error' = "" /\ chunks' = chunks)]_vars

\* C15 witness: in a second or later pass nothing was selected and the forced
\* group was appended behind the groups of the earlier passes
C15_Witness ==
    /\ pc = "return"
    /\ forced
    /\ vertices_to_remove = <<>>
    /\ chunk_num >= 2
    /\ Len(chunks[Len(chunks)]) = Len(remaining_vertices)

\* the names of the chunk artifacts in the output directory
ArtifactNames == DOMAIN chunk_files

\* C12: when chunk_ply_file has completed, the output directory holds the
\* manifest and exactly the chunk artifacts of the indices 0..N-1, N being
\* the manifest's chunk_count, also after an earlier run on the same
\* directory.
C12_DirectoryIsManifest ==
    pc = "done" =>
        /\ manifest_file # <<>>
        /\ manifest_file = manifest
        /\ ArtifactNames = {ChunkFilename(i) : i \in 0..(manifest_file[1].chunk_count - 1)}

\* every entry with a manifest was skipped, every other one was handed to
\* chunk_ply_file and came back, chunked or with its failure caught
ScanCovered ==
    /\ auto_pc = "returned"
    /\ \A i \in DOMAIN ply_files :
           IF ply_files[i].manifest_exists
               THEN outcomes[i] = "skipped"
               ELSE outcomes[i] \in {"chunked", "failed"}

\* C11: a failure while one file of the scan is processed does not end the
\* scan: the scan comes to its end with every entry whose manifest exists
\* skipped and every other entry processed, whatever happened to the entries
\* before it.
C11_ScanCoversEveryFile == <>ScanCovered

\* the PNG files in the gallery directory now
PngFilesNow ==
    IF gallery_dir = <<>> THEN {} ELSE {n \in gallery_dir[1] : IsPng(n)}

\* C13: after update_manifest has returned normally, the stored manifest
\* lists exactly the PNG files of the gallery directory, and its
\* randomCandidates all exist in the gallery and were candidates before the
\* run; also for a gallery without any PNG file.
C13_ManifestMatchesGallery ==
    gpc = "returned" =>
        /\ SetOf(gallery_manifest.files) = PngFilesNow
        /\ SetOf(gallery_manifest.randomCandidates) \subseteq PngFilesNow
        /\ SetOf(gallery_manifest.randomCandidates) \subseteq prior_candidates
====
